---- MODULE Spec2Model ----
(***************************************************************************)
(* A model of finance_app.py, the FinTrack dashboard script.               *)
(*                                                                         *)
(* The script runs top to bottom on every render: the sidebar reads the    *)
(* widgets and parses the milestone table, load_and_process_data derives   *)
(* the table columns (Date, Total_Assets, Change, Tag, Stage) and the      *)
(* monthly series, calculate_milestone_velocity scans thresholds, and the  *)
(* main block formats what the page shows.                                 *)
(*                                                                         *)
(* Conventions.                                                            *)
(*  - A date is the number of days since 2023-01-01 (day 0).               *)
(*  - A cell that may be missing (NaN/None) is a set: {} is missing,       *)
(*    {v} holds v.                                                         *)
(*  - A text is a sequence of one-character strings.  ASCII characters are *)
(*    themselves; a non-ASCII character is written "uXXXX", its code       *)
(*    point.                                                               *)
(*  - Amounts are integers (yuan); Day offsets are whole days.             *)
(*  - The data file holds at least one row.                                *)
(*  - The charts (mask_fig and the plotly figures) are not modelled: the   *)
(*    page is the title, the metrics, the tables and the texts.            *)
(*  - A number printed with one or two decimals is kept in tenths or       *)
(*    hundredths, rounded to the nearest.                                  *)
(***************************************************************************)
EXTENDS Integers, Sequences, FiniteSets, TLC

VARIABLES
    pc,              \* position of the script run
    csv,             \* rows of the data file: [Day, Bank, Invest, Notes]
    ms_df,           \* rows of the milestone editor: [date, name]
    start_dt,        \* the "start date" input (line 105-106)
    privacy_mode,    \* the privacy checkbox (line 118)
    target_goal,     \* number input (line 113)
    velocity_step,   \* number input (line 114)
    milestones,      \* parsed, sorted milestone list (lines 91-102)
    df,              \* the processed table
    monthly_diff,    \* month -> net change (line 220)
    season_pivot,    \* <<year, month>> -> net change (line 226)
    current_target,  \* calculate_milestone_velocity locals
    last_date,
    v_rows,          \* the list calculate_milestone_velocity appends to
    v_broke,         \* TRUE once the loop's else/break branch was taken
    page,            \* what the page shows
    cache,           \* st.cache_data entries of load_and_process_data
    cache_hit        \* TRUE when the last call was served from the cache

vars == <<pc, csv, ms_df, start_dt, privacy_mode, target_goal, velocity_step,
          milestones, df, monthly_diff, season_pivot, current_target,
          last_date, v_rows, v_broke, page, cache, cache_hit>>

-----------------------------------------------------------------------------
(* Bounds of the model *)

MaxRows == 3
MaxNoteLen == 4
MaxMilestones == 2

-----------------------------------------------------------------------------
(* Generic helpers *)

NaN == {}
IsNa(c) == c = {}
ValueOf(c) == CHOOSE v \in c : TRUE

Abs(x) == IF x < 0 THEN -x ELSE x

SetMin(S) == CHOOSE x \in S : \A y \in S : x <= y
SetMax(S) == CHOOSE x \in S : \A y \in S : x >= y

\* Series.fillna(0)
fillna0(c) == IF IsNa(c) THEN 0 ELSE ValueOf(c)

-----------------------------------------------------------------------------
(* Calendar: pandas Timestamp arithmetic on whole days *)

\* 2023-02-25, the default of the start date input
DefaultStartDate == 55
\* 2023-06-14, the default milestone and the fallback of job_start_dt
DefaultJobStart == 164

IsLeap(y) == (y % 4 = 0 /\ y % 100 # 0) \/ y % 400 = 0

DaysInMonth(y, m) ==
    IF m = 2 THEN (IF IsLeap(y) THEN 29 ELSE 28)
    ELSE IF m \in {4, 6, 9, 11} THEN 30 ELSE 31

RECURSIVE YmdFrom(_, _, _)
YmdFrom(d, y, m) ==
    IF d < DaysInMonth(y, m) THEN <<y, m, d + 1>>
    ELSE IF m = 12 THEN YmdFrom(d - DaysInMonth(y, m), y + 1, 1)
    ELSE YmdFrom(d - DaysInMonth(y, m), y, m + 1)

\* strftime("%Y-%m-%d"): <<year, month, day>> of a date (a date is >= 0;
\* day 0 is 2023-01-01)
Ymd(d) == YmdFrom(d, 2023, 1)

\* <<year, month>> of a date
YearMonth(d) == <<Ymd(d)[1], Ymd(d)[2]>>

\* Months counted from year 0, so that consecutive calendar months differ by 1
MonthIndex(d) == LET ymd == Ymd(d) IN ymd[1] * 12 + (ymd[2] - 1)
YearMonthOfIndex(k) == <<k \div 12, (k % 12) + 1>>

-----------------------------------------------------------------------------
(* Text helpers: str.strip, re.split, substring test *)

IsSpace(c) == c = " "

RECURSIVE LStrip(_)
LStrip(s) == IF s # <<>> /\ IsSpace(Head(s)) THEN LStrip(Tail(s)) ELSE s

RECURSIVE RStrip(_)
RStrip(s) ==
    IF s # <<>> /\ IsSpace(s[Len(s)]) THEN RStrip(SubSeq(s, 1, Len(s) - 1))
    ELSE s

\* str.strip()
Strip(s) == RStrip(LStrip(s))

\* Position of the first character of s that is in delims, 0 if none
RECURSIVE FirstDelimFrom(_, _, _)
FirstDelimFrom(s, delims, i) ==
    IF i > Len(s) THEN 0
    ELSE IF s[i] \in delims THEN i
    ELSE FirstDelimFrom(s, delims, i + 1)

\* re.split('[<delims>]', s): the pieces between delimiters, empty ones kept
RECURSIVE ReSplit(_, _)
ReSplit(s, delims) ==
    LET i == FirstDelimFrom(s, delims, 1)
    IN  IF i = 0 THEN <<s>>
        ELSE <<SubSeq(s, 1, i - 1)>> \o ReSplit(SubSeq(s, i + 1, Len(s)), delims)

\* k in s, for texts
Contains(s, k) ==
    \E i \in 1..(Len(s) - Len(k) + 1) : SubSeq(s, i, i + Len(k) - 1) = k

-----------------------------------------------------------------------------
(* Sidebar: the milestone table (lines 62-108) *)

\* "公司A": the name of the default milestone (line 64)
CompanyA == <<"u516C", "u53F8", "A">>

\* default_milestones (lines 63-66)
default_milestones == <<[date |-> {DefaultJobStart}, name |-> {CompanyA}]>>

\* ms_df.dropna(subset=[date, name]) and the loop of lines 95-99:
\* rows with both cells present, in table order, the name stripped
RECURSIVE valid_rows(_)
valid_rows(rows) ==
    IF rows = <<>> THEN <<>>
    ELSE LET r == Head(rows)
         IN  IF IsNa(r.date) \/ IsNa(r.name) THEN valid_rows(Tail(rows))
             ELSE <<[date |-> ValueOf(r.date), label |-> Strip(ValueOf(r.name))]>>
                  \o valid_rows(Tail(rows))

\* Insert m into a date-sorted list after every entry whose date is <= m.date
RECURSIVE InsertByDate(_, _)
InsertByDate(sorted, m) ==
    IF sorted = <<>> THEN <<m>>
    ELSE IF Head(sorted).date <= m.date
         THEN <<Head(sorted)>> \o InsertByDate(Tail(sorted), m)
         ELSE <<m>> \o sorted

\* (mutant) the list is left in the editor's order
sorted_by_date_unsorted(ms) == ms

\* sorted(milestones, key=lambda x: x['date']) (line 102): a stable sort
RECURSIVE sorted_by_date(_)
sorted_by_date(ms) ==
    IF ms = <<>> THEN <<>>
    ELSE InsertByDate(sorted_by_date(SubSeq(ms, 1, Len(ms) - 1)), ms[Len(ms)])

\* lines 91-102
parse_milestones(editor) == sorted_by_date(valid_rows(editor))

-----------------------------------------------------------------------------
(* adaptive_tagging (lines 174-195) *)

TagNoChange == <<"u65E0", "u53D8", "u52A8">>            \* '无变动'
TagTransfer == <<"u8D44", "u4EA7", "u8F6C", "u79FB">>   \* '资产转移'
TagOther    == <<"u5176", "u4ED6">>                      \* "其他"
PrefixIncome  == <<"u1F4C8", " ", "u6536", "u5165", ":">>  \* "📈 收入:"
PrefixExpense == <<"u1F4B8", " ", "u652F", "u51FA", ":">>  \* "💸 支出:"

SegmentDelims == {";", "uFF1B"}    \* '[;；]'
PartDelims    == {":", "uFF1A"}    \* '[:：]'

\* ['里程碑', '备注', '备忘', '2025', '2026'] (line 186)
ExcludedCats == { <<"u91CC", "u7A0B", "u7891">>, <<"u5907", "u6CE8">>,
                  <<"u5907", "u5FD8">>, <<"2", "0", "2", "5">>,
                  <<"2", "0", "2", "6">> }

\* ['理财', '买入', '基金', '转入'] (line 190)
TransferKeywords == { <<"u7406", "u8D22">>, <<"u4E70", "u5165">>,
                      <<"u57FA", "u91D1">>, <<"u8F6C", "u5165">> }

\* cat = re.split('[:：]', s)[0].strip() (lines 183-184)
cat_of(s) == Strip(ReSplit(s, PartDelims)[1])

\* (mutant) the excluded tokens are let through
is_valid_cat_unfiltered(cat) == cat # <<>>

\* the filter of line 186
is_valid_cat(cat) == cat # <<>> /\ cat \notin ExcludedCats

\* the loop of lines 182-187
RECURSIVE valid_cats_of(_)
valid_cats_of(segments) ==
    IF segments = <<>> THEN <<>>
    ELSE LET cat == cat_of(Head(segments))
         IN  (IF is_valid_cat(cat) THEN <<cat>> ELSE <<>>)
             \o valid_cats_of(Tail(segments))

\* (mutant) the magnitude test without abs()
is_transfer_signed(note, change) ==
    (\E k \in TransferKeywords : Contains(note, k)) /\ change < 10

\* the test of line 190
is_transfer(note, change) ==
    (\E k \in TransferKeywords : Contains(note, k)) /\ Abs(change) < 10

\* line 194
prefix_of(change) == IF change > 0 THEN PrefixIncome ELSE PrefixExpense

adaptive_tagging(notes, change) ==
    LET note == Strip(notes)
        valid_cats == valid_cats_of(ReSplit(note, SegmentDelims))
        res_tag == IF valid_cats # <<>> THEN valid_cats[1] ELSE TagOther
    IN  IF change = 0 /\ note = <<>> THEN TagNoChange
        ELSE IF is_transfer(note, change) THEN TagTransfer
        ELSE prefix_of(change) \o res_tag

-----------------------------------------------------------------------------
(* assign_stage_dynamic (lines 201-214) *)

InitialStage == <<"u521D", "u59CB", "u9636", "u6BB5">>   \* "初始阶段"

\* the for loop of lines 205-210, from position i on
RECURSIVE scan_milestones(_, _, _, _)
scan_milestones(ms, i, d, acc) ==
    IF i > Len(ms) THEN acc
    ELSE IF d >= ms[i].date
         THEN scan_milestones(ms, i + 1, d,
                              [label |-> ms[i].label, start |-> ms[i].date])
         ELSE acc

\* line 213
years_passed(d, stage_start_date) == (d - stage_start_date) \div 365

\* The label f"{current_label} (第{years_passed + 1}年)" is kept as the pair
\* of its two holes.
assign_stage_dynamic(d, ms) ==
    LET init == [label |-> InitialStage,
                 start |-> IF ms # <<>> THEN ms[1].date ELSE d]
        fin == scan_milestones(ms, 1, d, init)
    IN  [label |-> fin.label, year |-> years_passed(d, fin.start) + 1]

-----------------------------------------------------------------------------
(* load_and_process_data (lines 160-232) *)

\* line 163: base_date + timedelta(days=Day)
date_of(row, base_date) == base_date + row.Day

\* lines 166-168
total_assets(row) == fillna0(row.Bank) + fillna0(row.Invest)

\* (mutant) the difference to the first row instead of the previous one
change_at_cumulative(file, i) ==
    IF i = 1 THEN 0 ELSE total_assets(file[i]) - total_assets(file[1])

\* line 169: Total_Assets.diff().fillna(0) at row i (rows in file order)
change_at(file, i) ==
    IF i = 1 THEN 0 ELSE total_assets(file[i]) - total_assets(file[i - 1])

\* line 170: Notes.fillna('')
notes_of(row) == IF IsNa(row.Notes) THEN <<>> ELSE ValueOf(row.Notes)

\* lines 161-216: the columns of the processed table
process_rows(file, base_date, ms) ==
    [i \in 1..Len(file) |->
        [Date         |-> date_of(file[i], base_date),
         Bank         |-> fillna0(file[i].Bank),
         Invest       |-> fillna0(file[i].Invest),
         Total_Assets |-> total_assets(file[i]),
         Change       |-> change_at(file, i),
         Notes        |-> notes_of(file[i]),
         Tag          |-> adaptive_tagging(notes_of(file[i]), change_at(file, i)),
         Stage        |-> assign_stage_dynamic(date_of(file[i], base_date), ms)]]

\* (mutant) the last row of the file, the dates not sorted
last_row_of_unsorted(rows, idx) == SetMax(idx)

\* The row resample('M').last() takes from the rows idx of one month: pandas
\* sorts a time grouper's axis by date with a stable sort, so it is the row
\* of the latest date and, among equal dates, the last in file order.
last_row_of(rows, idx) ==
    CHOOSE i \in idx : \A j \in idx :
        \/ rows[j].Date < rows[i].Date
        \/ (rows[j].Date = rows[i].Date /\ j <= i)

\* line 219: one bin per calendar month from the first to the last month of
\* the data; a month without rows holds NaN
resample_last(rows) ==
    LET month == [i \in 1..Len(rows) |-> MonthIndex(rows[i].Date)]
        ks == {month[i] : i \in 1..Len(rows)}
    IN  [k \in SetMin(ks)..SetMax(ks) |->
            LET idx == {i \in 1..Len(rows) : month[i] = k}
            IN  IF idx = {} THEN NaN
                ELSE {rows[last_row_of(rows, idx)].Total_Assets}]

\* Series.diff(): NaN for the first entry and next to a NaN
series_diff(ser) ==
    [k \in DOMAIN ser |->
        IF (k - 1) \notin DOMAIN ser \/ IsNa(ser[k]) \/ IsNa(ser[k - 1]) THEN NaN
        ELSE {ValueOf(ser[k]) - ValueOf(ser[k - 1])}]

\* line 220
monthly_diff_of(rows) ==
    LET d == series_diff(resample_last(rows))
    IN  [k \in DOMAIN d |-> fillna0(d[k])]

\* lines 223-226: pivot(index='Year', columns='Month'); a (year, month) the
\* series does not cover holds NaN
season_pivot_of(md) ==
    LET Ys == {YearMonthOfIndex(k)[1] : k \in DOMAIN md}
        Ms == {YearMonthOfIndex(k)[2] : k \in DOMAIN md}
    IN  [ym \in Ys \X Ms |->
            IF \E k \in DOMAIN md : YearMonthOfIndex(k) = ym
            THEN {md[ym[1] * 12 + ym[2] - 1]}
            ELSE NaN]

-----------------------------------------------------------------------------
(* Displayed values *)

\* "****"
Masked == [masked |-> TRUE, val |-> 0]
\* a number as the page prints it
Shown(v) == [masked |-> FALSE, val |-> v]

\* n / d rounded to the nearest integer (d # 0), halves up
RoundDiv(n, d) ==
    IF d > 0 THEN (2 * n + d) \div (2 * d) ELSE (2 * (-n) + (-d)) \div (2 * (-d))

\* int(x / d): truncation toward zero (d > 0)
TruncDiv(n, d) == IF n >= 0 THEN n \div d ELSE -((-n) \div d)

\* fmt_money(val, True) (lines 121-127); f"{val:,.0f}" of a whole amount
fmt_money(val, privacy) == IF privacy THEN Masked ELSE Shown(val)

-----------------------------------------------------------------------------
(* The script run *)

NoVelocity == [num |-> 0, den |-> 1]
NoProjection == [kind |-> "none", goal |-> Masked, rem |-> Masked,
                 vel |-> Masked, days |-> 0]

\* Nothing rendered yet
NoPage == [title_goal |-> Masked, kpi_total |-> Masked, kpi_change |-> Masked,
           curr_stage |-> [label |-> <<>>, year |-> 0],
           kpi_accum |-> Masked, cash_ratio |-> [finite |-> FALSE, tenths |-> 0],
           step_label |-> Masked, velocity |-> <<>>,
           top_inc |-> <<>>, top_exp |-> <<>>, projection |-> NoProjection]
EmptySeries == [k \in {} |-> 0]

\* The state before a run, for given widget values (the data file aside)
InitWith(editors, steps, goals, privs) ==
    /\ pc = "sidebar"
    /\ ms_df \in editors
    /\ start_dt = DefaultStartDate
    /\ privacy_mode \in privs
    /\ target_goal \in goals
    /\ velocity_step \in steps
    /\ milestones = <<>>
    /\ df = <<>>
    /\ monthly_diff = EmptySeries
    /\ season_pivot = EmptySeries
    /\ current_target = 0
    /\ last_date = 0
    /\ v_rows = <<>>
    /\ v_broke = FALSE
    /\ page = NoPage
    /\ cache = {}
    /\ cache_hit = FALSE

\* lines 38-118: the sidebar; the widgets keep their values, the milestone
\* table is parsed
Sidebar ==
    /\ pc = "sidebar"
    /\ milestones' = parse_milestones(ms_df)
    /\ pc' = "load"
    /\ UNCHANGED <<cache, cache_hit>>
    /\ UNCHANGED <<csv, ms_df, start_dt, privacy_mode, target_goal,
                   velocity_step, df, monthly_diff, season_pivot,
                   current_target, last_date, v_rows, v_broke, page>>

\* line 108: the first milestone's date, or the default
job_start_dt_of(ms) == IF ms # <<>> THEN ms[1].date ELSE DefaultJobStart

\* @st.cache_data (line 159): an entry is found by the call's arguments
\* (file, start_date_val, job_start_val) alone
cache_key(file, start_date_val, job_start_val) ==
    <<file, start_date_val, job_start_val>>

\* line 265: df, monthly_diff, season_pivot = load_and_process_data(...):
\* the cached frames when an entry of the same arguments is held; else the
\* body (lines 161-232) runs, assign_stage_dynamic reading the module-level
\* milestones, and its result is stored
LoadAndProcess ==
    /\ pc = "load"
    /\ LET key == cache_key(csv, start_dt, job_start_dt_of(milestones))
           hits == {e \in cache : e.key = key}
       IN  IF hits # {}
           THEN /\ \E e \in hits :
                      /\ df' = e.value.df
                      /\ monthly_diff' = e.value.monthly_diff
                      /\ season_pivot' = e.value.season_pivot
                /\ cache_hit' = TRUE
                /\ cache' = cache
           ELSE /\ df' = process_rows(csv, start_dt, milestones)
                /\ monthly_diff' = monthly_diff_of(df')
                /\ season_pivot' = season_pivot_of(monthly_diff')
                /\ cache_hit' = FALSE
                /\ cache' = cache \cup
                       {[key |-> key,
                         value |-> [df |-> df', monthly_diff |-> monthly_diff',
                                    season_pivot |-> season_pivot']]}
    /\ pc' = "kpi"
    /\ UNCHANGED <<csv, ms_df, start_dt, privacy_mode, target_goal,
                   velocity_step, milestones, current_target, last_date,
                   v_rows, v_broke, page>>

\* ttl=1 (line 159): an entry is dropped once it is older than a second
CacheExpire ==
    /\ \E e \in cache : cache' = cache \ {e}
    /\ UNCHANGED <<pc, csv, ms_df, start_dt, privacy_mode, target_goal,
                   velocity_step, milestones, df, monthly_diff, season_pivot,
                   current_target, last_date, v_rows, v_broke, page, cache_hit>>

-----------------------------------------------------------------------------
(* The main block: title and KPIs (lines 267-316) *)

\* lines 277-282 and 294-300: the average daily growth over the rows idx, a
\* fraction num/den; 0 with fewer than two rows or no day between them
velocity_of(rows, idx) ==
    IF Cardinality(idx) > 1
    THEN LET growth == rows[SetMax(idx)].Total_Assets - rows[SetMin(idx)].Total_Assets
             days == SetMax({rows[i].Date : i \in idx}) - SetMin({rows[i].Date : i \in idx})
         IN  IF days > 0 THEN [num |-> growth, den |-> days] ELSE NoVelocity
    ELSE NoVelocity

\* line 276: stage_df = df[df['Stage'] == curr_stage]
stage_rows(rows) == {i \in 1..Len(rows) : rows[i].Stage = rows[Len(rows)].Stage}

\* lines 291-292: the rows of the last 365 days before the last row's date
recent_rows(rows) == {i \in 1..Len(rows) : rows[i].Date >= rows[Len(rows)].Date - 365}

stage_velocity(rows) == velocity_of(rows, stage_rows(rows))
display_velocity(rows) == velocity_of(rows, recent_rows(rows))

\* line 268 / 490
title_goal_of(goal, privacy) == IF privacy THEN Masked ELSE Shown(goal)
\* line 286: f"{last_change:+,.0f}"
kpi_change_of(rows, privacy) ==
    IF privacy THEN Masked ELSE Shown(rows[Len(rows)].Change)
\* line 315: f"¥{display_velocity:,.1f} /天", in tenths of a yuan
kpi_accum_of(rows, privacy) ==
    Shown(RoundDiv(display_velocity(rows).num * 10, display_velocity(rows).den))
\* line 316: f"{(Bank/curr_total)*100:.1f}%", in tenths of a percent; a
\* float division by 0 prints inf or nan
cash_ratio_of(rows) ==
    LET bank == rows[Len(rows)].Bank
        curr_total == rows[Len(rows)].Total_Assets
    IN  IF curr_total = 0 THEN [finite |-> FALSE, tenths |-> 0]
        ELSE [finite |-> TRUE, tenths |-> RoundDiv(bank * 1000, curr_total)]

RenderKPI ==
    /\ pc = "kpi"
    /\ page' = [page EXCEPT
                  !.title_goal = title_goal_of(target_goal, privacy_mode),
                  !.kpi_total = fmt_money(df[Len(df)].Total_Assets, privacy_mode),
                  !.kpi_change = kpi_change_of(df, privacy_mode),
                  !.curr_stage = df[Len(df)].Stage,
                  !.kpi_accum = kpi_accum_of(df, privacy_mode),
                  !.cash_ratio = cash_ratio_of(df)]
    /\ pc' = "velocity"
    /\ UNCHANGED <<cache, cache_hit>>
    /\ UNCHANGED <<csv, ms_df, start_dt, privacy_mode, target_goal,
                   velocity_step, milestones, df, monthly_diff, season_pivot,
                   current_target, last_date, v_rows, v_broke>>

-----------------------------------------------------------------------------
(* Tabs 3 and 4: the Top-10 tables and the projection (lines 459-501) *)

\* the rows nlargest / nsmallest keep
TopN == 10

\* The row of idx that nlargest (larger) or nsmallest takes first: the
\* extreme Change, the earliest row among equals
best_of(rows, idx, larger) ==
    CHOOSE i \in idx : \A j \in idx :
        \/ (IF larger THEN rows[i].Change > rows[j].Change
                      ELSE rows[i].Change < rows[j].Change)
        \/ (rows[i].Change = rows[j].Change /\ i <= j)

RECURSIVE top_rows(_, _, _, _)
top_rows(rows, idx, n, larger) ==
    IF n = 0 \/ idx = {} THEN <<>>
    ELSE LET b == best_of(rows, idx, larger)
         IN  <<b>> \o top_rows(rows, idx \ {b}, n - 1, larger)

\* display_df_masked (lines 460-466) on one row; f"{x:+,.0f}"
display_df_masked(row, privacy) ==
    [Date   |-> Ymd(row.Date),
     Change |-> IF privacy THEN Masked ELSE Shown(row.Change),
     Notes  |-> row.Notes,
     Tag    |-> row.Tag]

\* lines 470-472
top_inc_of(rows, privacy) ==
    LET top == top_rows(rows, {i \in 1..Len(rows) : rows[i].Change > 0}, TopN, TRUE)
    IN  [k \in 1..Len(top) |-> display_df_masked(rows[top[k]], privacy)]

\* lines 476-478
top_exp_of(rows, privacy) ==
    LET top == top_rows(rows, {i \in 1..Len(rows) : rows[i].Change < 0}, TopN, FALSE)
    IN  [k \in 1..Len(top) |-> display_df_masked(rows[top[k]], privacy)]

\* lines 483-501; the predicted date is now + days
projection_of(rows, goal, privacy) ==
    LET v == stage_velocity(rows)
        remaining == goal - rows[Len(rows)].Total_Assets
    IN  IF v.num > 0
        THEN IF remaining > 0
             THEN [kind |-> "projection",
                   goal |-> title_goal_of(goal, privacy),
                   rem  |-> IF privacy THEN Masked ELSE Shown(remaining),
                   vel  |-> IF privacy THEN Masked
                            ELSE Shown(RoundDiv(v.num * 100, v.den)),
                   days |-> TruncDiv(remaining * v.den, v.num)]
             ELSE [NoProjection EXCEPT !.kind = "reached"]
        ELSE [NoProjection EXCEPT !.kind = "no_growth"]

RenderTabs ==
    /\ pc = "tabs"
    /\ page' = [page EXCEPT
                  !.top_inc = top_inc_of(df, privacy_mode),
                  !.top_exp = top_exp_of(df, privacy_mode),
                  !.projection = projection_of(df, target_goal, privacy_mode)]
    /\ pc' = "done"
    /\ UNCHANGED <<cache, cache_hit>>
    /\ UNCHANGED <<csv, ms_df, start_dt, privacy_mode, target_goal,
                   velocity_step, milestones, df, monthly_diff, season_pivot,
                   current_target, last_date, v_rows, v_broke>>

-----------------------------------------------------------------------------
(* calculate_milestone_velocity (lines 235-261) *)

min_assets(rows) == SetMin({rows[i].Total_Assets : i \in 1..Len(rows)})
max_assets(rows) == SetMax({rows[i].Total_Assets : i \in 1..Len(rows)})

\* (mutant) the multiple of step at or below the minimum
first_target_floor(rows, step) == (min_assets(rows) \div step) * step

\* line 238: (start_val // step + 1) * step, for step > 0
first_target(rows, step) == ((min_assets(rows) \div step) + 1) * step

\* (mutant) a strict comparison
reach_dates_strict(rows, target) ==
    {rows[i].Date : i \in {j \in 1..Len(rows) : rows[j].Total_Assets > target}}

\* line 243: the dates of sorted_df[Total_Assets >= current_target]
reach_dates(rows, target) ==
    {rows[i].Date : i \in {j \in 1..Len(rows) : rows[j].Total_Assets >= target}}

\* (mutant) the difference is not raised to 1
days_taken_raw(curr_date, prev_date) == curr_date - prev_date

\* lines 246-247
days_taken(curr_date, prev_date) ==
    IF curr_date - prev_date < 1 THEN 1 ELSE curr_date - prev_date

\* line 250: the label f"{int(current_target/10000)}w", kept as its number
m_label(target, privacy) ==
    IF privacy THEN Masked ELSE Shown(TruncDiv(target, 10000))

\* line 361: the step label, then lines 236-240
VelocityStart ==
    /\ pc = "velocity"
    /\ page' = [page EXCEPT !.step_label = m_label(velocity_step, privacy_mode)]
    /\ v_rows' = <<>>
    /\ current_target' = first_target(df, velocity_step)
    /\ last_date' = df[1].Date
    /\ pc' = "vloop"
    /\ UNCHANGED <<cache, cache_hit>>
    /\ UNCHANGED <<csv, ms_df, start_dt, privacy_mode, target_goal,
                   velocity_step, milestones, df, monthly_diff, season_pivot,
                   v_broke>>

\* one pass of the while loop (lines 242-260) with its condition true;
\* head(1) of the date-sorted rows is a row of the earliest reach date;
\* the else branch breaks out and returns
VelocityIter ==
    /\ pc = "vloop"
    /\ current_target <= max_assets(df)
    /\ IF reach_dates(df, current_target) # {}
       THEN LET curr_date == SetMin(reach_dates(df, current_target))
            IN  /\ v_rows' = Append(v_rows,
                       [label |-> m_label(current_target, privacy_mode),
                        days  |-> days_taken(curr_date, last_date),
                        date  |-> Ymd(curr_date)])
                /\ last_date' = curr_date
                /\ current_target' = current_target + velocity_step
                /\ UNCHANGED <<pc, v_broke, page>>
       ELSE /\ v_broke' = TRUE
            /\ page' = [page EXCEPT !.velocity = v_rows]
            /\ pc' = "tabs"
            /\ UNCHANGED <<v_rows, last_date, current_target>>
    /\ UNCHANGED <<cache, cache_hit>>
    /\ UNCHANGED <<csv, ms_df, start_dt, privacy_mode, target_goal,
                   velocity_step, milestones, df, monthly_diff, season_pivot>>

\* the while condition false: return (line 261)
VelocityExit ==
    /\ pc = "vloop"
    /\ ~(current_target <= max_assets(df))
    /\ page' = [page EXCEPT !.velocity = v_rows]
    /\ pc' = "tabs"
    /\ UNCHANGED <<cache, cache_hit>>
    /\ UNCHANGED <<csv, ms_df, start_dt, privacy_mode, target_goal,
                   velocity_step, milestones, df, monthly_diff, season_pivot,
                   current_target, last_date, v_rows, v_broke>>

\* One run of the script, top to bottom
Next ==
    \/ Sidebar
    \/ LoadAndProcess
    \/ RenderKPI
    \/ VelocityStart
    \/ VelocityIter
    \/ VelocityExit
    \/ RenderTabs

-----------------------------------------------------------------------------
(* SpecLoad: load_and_process_data on tables with missing cells *)

DefaultGoal == 1000000
DefaultStep == 100000

LoadCells == {NaN, {0}, {5}, {-3}}
LoadRows == [Day : {0, 1}, Bank : LoadCells, Invest : {NaN, {2}}, Notes : {NaN}]

InitLoad ==
    /\ \E n \in 1..MaxRows : csv \in [1..n -> LoadRows]
    /\ InitWith({default_milestones}, {DefaultStep}, {DefaultGoal}, {FALSE})

NextLoad == Sidebar \/ LoadAndProcess

SpecLoad == InitLoad /\ [][NextLoad]_vars

\* C1: after load_and_process_data, every row has Total_Assets = Bank + Invest
\* with a missing Bank or Invest cell counted as 0, the first row has
\* Change = 0, and every later row i (file order) has
\* Change[i] = Total_Assets[i] - Total_Assets[i-1].
CellOr0(c) == IF c = {} THEN 0 ELSE ValueOf(c)
C1_ChangeIsDiff ==
    pc = "kpi" =>
        /\ Len(df) = Len(csv)
        /\ \A i \in 1..Len(df) :
            /\ df[i].Total_Assets = CellOr0(csv[i].Bank) + CellOr0(csv[i].Invest)
            /\ df[i].Total_Assets = df[i].Bank + df[i].Invest
            /\ i = 1 => df[i].Change = 0
            /\ i > 1 => df[i].Change = df[i].Total_Assets - df[i - 1].Total_Assets

\* A loaded table with a missing cell and a non-zero change in a later row
C1_Witness ==
    /\ pc = "kpi"
    /\ Len(df) >= 3
    /\ \E i \in 1..Len(csv) : csv[i].Bank = {} /\ csv[i].Invest # {}
    /\ df[2].Change # 0 /\ df[3].Change # df[2].Change

-----------------------------------------------------------------------------
(* SpecTag: adaptive_tagging on the notes of a second row *)

\* ; ； : ： space, and the characters of '理财' and '备注'
NoteChars == {";", "uFF1B", ":", "uFF1A", " ", "u7406", "u8D22", "u5907", "u6CE8"}

\* The first row holds 10; the second row's balance makes Change one of
\* -10, -9, 0, 9, 10
TagFile(b, notes) ==
    << [Day |-> 0, Bank |-> {10}, Invest |-> NaN, Notes |-> NaN],
       [Day |-> 1, Bank |-> {b}, Invest |-> NaN, Notes |-> notes] >>

InitTag ==
    /\ \E b \in {0, 1, 10, 19, 20} :
          \/ csv = TagFile(b, NaN)
          \/ \E n \in 0..MaxNoteLen : \E t \in [1..n -> NoteChars] :
                csv = TagFile(b, {t})
    /\ InitWith({default_milestones}, {DefaultStep}, {DefaultGoal}, {FALSE})

SpecTag == InitTag /\ [][NextLoad]_vars

\* The claims' own reading of the notes ----------------------------------

C2_Excluded == { <<"u91CC", "u7A0B", "u7891">>, <<"u5907", "u6CE8">>,
                 <<"u5907", "u5FD8">>, <<"2", "0", "2", "5">>,
                 <<"2", "0", "2", "6">> }
C2_Delims == {";", "uFF1B", ":", "uFF1A"}

\* t without its leading and trailing spaces
C2_Trimmed(t) ==
    LET ns == {i \in 1..Len(t) : t[i] # " "}
    IN  IF ns = {} THEN <<>>
        ELSE SubSeq(t, CHOOSE i \in ns : \A j \in ns : i <= j,
                       CHOOSE i \in ns : \A j \in ns : i >= j)

\* a is where a ';'/'；'-separated segment of t starts
C2_SegmentStart(t, a) == a = 1 \/ (a \in 2..(Len(t) + 1) /\ t[a - 1] \in {";", "uFF1B"})

\* The trimmed text of the segment starting at a, up to its first ':'/'：'
C2_Head(t, a) ==
    LET b == CHOOSE e \in (a - 1)..Len(t) :
                 /\ \A i \in a..e : t[i] \notin C2_Delims
                 /\ (e = Len(t) \/ t[e + 1] \in C2_Delims)
    IN  C2_Trimmed(SubSeq(t, a, b))

C2_Qualifies(t, a) ==
    C2_SegmentStart(t, a) /\ C2_Head(t, a) # <<>> /\ C2_Head(t, a) \notin C2_Excluded

C2_Category(t) ==
    IF \E a \in 1..(Len(t) + 1) : C2_Qualifies(t, a)
    THEN C2_Head(t, CHOOSE a \in 1..(Len(t) + 1) :
                        /\ C2_Qualifies(t, a)
                        /\ \A a2 \in 1..(a - 1) : ~C2_Qualifies(t, a2))
    ELSE <<"u5176", "u4ED6">>

\* C2: a row tagged neither '无变动' nor '资产转移' has the tag prefix +
\* category, the category being the trimmed head of the first segment of
\* Notes whose trimmed head is non-empty and not an excluded token, or '其他';
\* the category is never empty nor excluded; the prefix is the income prefix
\* exactly when Change > 0, else the expense prefix.
C2_TagIsPrefixCategory ==
    pc = "kpi" =>
        \A i \in 1..Len(df) :
            df[i].Tag \notin {<<"u65E0", "u53D8", "u52A8">>,
                              <<"u8D44", "u4EA7", "u8F6C", "u79FB">>} =>
                LET cat == C2_Category(df[i].Notes)
                    pre == IF df[i].Change > 0
                           THEN <<"u1F4C8", " ", "u6536", "u5165", ":">>
                           ELSE <<"u1F4B8", " ", "u652F", "u51FA", ":">>
                IN  /\ df[i].Tag = pre \o cat
                    /\ cat # <<>>
                    /\ cat \notin C2_Excluded

\* Notes '备注;理' with Change 10: the excluded first segment is skipped
C2_Witness ==
    /\ pc = "kpi"
    /\ df[2].Notes = <<"u5907", "u6CE8", ";", "u7406">>
    /\ df[2].Change = 10
    /\ df[2].Tag = <<"u1F4C8", " ", "u6536", "u5165", ":", "u7406">>

C3_Keywords == { <<"u7406", "u8D22">>, <<"u4E70", "u5165">>,
                 <<"u57FA", "u91D1">>, <<"u8F6C", "u5165">> }

C3_Occurs(k, t) == \E i \in 0..(Len(t) - Len(k)) : \A j \in 1..Len(k) : t[i + j] = k[j]

\* C3: a row is tagged '资产转移' iff its Notes contain one of the keywords
\* and |Change| < 10, whatever category the Notes hold; a row with Change = 0
\* and empty Notes is tagged '无变动'.
C3_TransferOverride ==
    pc = "kpi" =>
        \A i \in 1..Len(df) :
            /\ df[i].Tag = <<"u8D44", "u4EA7", "u8F6C", "u79FB">>
                 <=> /\ \E k \in C3_Keywords : C3_Occurs(k, df[i].Notes)
                     /\ df[i].Change < 10 /\ df[i].Change > -10
            /\ (df[i].Change = 0 /\ df[i].Notes = <<>>)
                 => df[i].Tag = <<"u65E0", "u53D8", "u52A8">>

\* Notes '备:理财' with Change 9: the category '备' loses to the override
C3_Witness ==
    /\ pc = "kpi"
    /\ df[2].Notes = <<"u5907", ":", "u7406", "u8D22">>
    /\ df[2].Change = 9
    /\ df[2].Tag = <<"u8D44", "u4EA7", "u8F6C", "u79FB">>
    /\ df[1].Tag = <<"u65E0", "u53D8", "u52A8">>

-----------------------------------------------------------------------------
(* SpecStage: the milestone editor and assign_stage_dynamic *)

\* 2023-04-11, 2023-06-14, 2024-08-23
StageDates == {100, 164, 600}
\* "A", " B" (to be stripped)
StageNames == {<<"A">>, <<" ", "B">>}
StageEditorRows ==
    [date : {NaN} \cup {{d} : d \in StageDates},
     name : {NaN} \cup {{n} : n \in StageNames}]

\* Row dates 55, 100, 163, 164, 528, 529, 600, 1055 (start date 55)
StageDays == {0, 45, 108, 109, 473, 474, 545, 1000}

InitStage ==
    /\ \E day \in StageDays :
          csv = << [Day |-> day, Bank |-> {10}, Invest |-> NaN, Notes |-> NaN] >>
    /\ \E n \in 0..MaxMilestones : ms_df \in [1..n -> StageEditorRows]
    /\ InitWith({ms_df}, {DefaultStep}, {DefaultGoal}, {FALSE})

SpecStage == InitStage /\ [][NextLoad]_vars

\* Editor rows with both cells filled
C4_Valid == {j \in 1..Len(ms_df) : ms_df[j].date # {} /\ ms_df[j].name # {}}
C4_DateOf(j) == CHOOSE d \in ms_df[j].date : TRUE
C4_NameOf(j) == CHOOSE n \in ms_df[j].name : TRUE
C4_Distinct == \A j, k \in C4_Valid : j # k => C4_DateOf(j) # C4_DateOf(k)
\* The valid milestones dated on or before d
C4_Reached(d) == {j \in C4_Valid : C4_DateOf(j) <= d}
C4_Latest(d) == CHOOSE j \in C4_Reached(d) :
                    \A k \in C4_Reached(d) : C4_DateOf(k) <= C4_DateOf(j)

\* C4: with valid milestones of pairwise distinct dates, entered in any
\* order, a row's stage name is the label of the milestone with the latest
\* date <= the row's date, and '初始阶段' when there is none; editor rows
\* with a missing date or name contribute nothing.
C4_StageIsLatestMilestone ==
    (pc = "kpi" /\ C4_Distinct) =>
        \A i \in 1..Len(df) :
            df[i].Stage.label =
                IF C4_Reached(df[i].Date) = {}
                THEN <<"u521D", "u59CB", "u9636", "u6BB5">>
                ELSE C2_Trimmed(C4_NameOf(C4_Latest(df[i].Date)))

\* Two milestones entered latest first, the row dated after both
C4_Witness ==
    /\ pc = "kpi"
    /\ Len(ms_df) = 2
    /\ ms_df[1] = [date |-> {164}, name |-> {<<" ", "B">>}]
    /\ ms_df[2] = [date |-> {100}, name |-> {<<"A">>}]
    /\ df[1].Date = 528
    /\ df[1].Stage.label = <<"B">>

\* C9: the year number N of every row's Stage label is
\* floor(days since the start of the row's active stage / 365) + 1 and is
\* >= 1, also for rows dated before the first milestone.
C9_YearIsOneBased ==
    pc = "kpi" =>
        \A i \in 1..Len(df) :
            /\ df[i].Stage.year >= 1
            /\ C4_Distinct /\ C4_Reached(df[i].Date) # {} =>
                 df[i].Stage.year =
                    ((df[i].Date - C4_DateOf(C4_Latest(df[i].Date))) \div 365) + 1

\* What the code does: N counts from the first milestone's date when the
\* row is dated before it, and is then <= 0.
C9_YearAsComputed ==
    pc = "kpi" =>
        \A i \in 1..Len(df) :
            /\ C4_Reached(df[i].Date) # {} => df[i].Stage.year >= 1
            /\ (C4_Valid # {} /\ C4_Reached(df[i].Date) = {}) => df[i].Stage.year <= 0
            /\ C4_Valid = {} => df[i].Stage.year = 1

-----------------------------------------------------------------------------
(* SpecVelocity: calculate_milestone_velocity on small tables *)

VelocityAmounts == {-5000, 20000, 100000, 210000}
\* Days out of order too: the first row need not be the earliest
VelocityRows ==
    [Day : {0, 4}, Bank : {{a} : a \in VelocityAmounts},
     Invest : {NaN}, Notes : {NaN}]
VelocitySteps == {50000, DefaultStep}

InitVelocity ==
    /\ \E n \in 1..MaxRows : csv \in [1..n -> VelocityRows]
    /\ InitWith({default_milestones}, VelocitySteps, {DefaultGoal}, {FALSE})

SpecVelocity == InitVelocity /\ [][Next]_vars

\* Termination is checked on fewer tables: amounts below, at and above a
\* multiple of the step
TerminationRows ==
    [Day : {0, 4}, Bank : {{-5000}, {100000}, {210000}},
     Invest : {NaN}, Notes : {NaN}]

InitTermination ==
    /\ \E n \in 1..MaxRows : csv \in [1..n -> TerminationRows]
    /\ InitWith({default_milestones}, {DefaultStep}, {DefaultGoal}, {FALSE})

\* The script runs to its end without waiting for anything
SpecVelocityFair == InitTermination /\ [][Next]_vars /\ WF_vars(Next)

C5_Assets == {df[i].Total_Assets : i \in 1..Len(df)}
C5_Min == CHOOSE a \in C5_Assets : \A b \in C5_Assets : a <= b
C5_Max == CHOOSE a \in C5_Assets : \A b \in C5_Assets : a >= b
\* The multiples of step in (min, max]
C5_Thresholds ==
    {k * velocity_step : k \in {j \in ((C5_Min \div velocity_step) - 1)..((C5_Max \div velocity_step) + 1) :
                                   j * velocity_step > C5_Min /\ j * velocity_step <= C5_Max}}
\* The j-th smallest threshold
C5_Threshold(j) ==
    CHOOSE t \in C5_Thresholds : Cardinality({u \in C5_Thresholds : u < t}) = j - 1
\* The earliest date on which Total_Assets >= t
C5_ReachDate(t) ==
    CHOOSE d \in {df[i].Date : i \in 1..Len(df)} :
        /\ \E i \in 1..Len(df) : df[i].Date = d /\ df[i].Total_Assets >= t
        /\ \A i \in 1..Len(df) : df[i].Total_Assets >= t => df[i].Date >= d

\* C5: for a non-empty dataset and step > 0 the velocity table holds exactly
\* one entry per multiple of step in (min Total_Assets, max Total_Assets], in
\* increasing threshold order, each with the earliest date on which
\* Total_Assets >= its threshold.
C5_OneEntryPerThreshold ==
    pc \in {"tabs", "done"} =>
        /\ Len(page.velocity) = Cardinality(C5_Thresholds)
        /\ \A j \in 1..Len(page.velocity) :
            /\ page.velocity[j].date = Ymd(C5_ReachDate(C5_Threshold(j)))
            /\ page.velocity[j].label = Shown(TruncDiv(C5_Threshold(j), 10000))

\* Three thresholds (0, 100000, 200000) between -5000 and 210000
C5_Witness ==
    /\ pc = "done"
    /\ velocity_step = 100000
    /\ Len(page.velocity) = 3
    /\ page.velocity[1].label.val = 0
    /\ page.velocity[3].label.val = 20
    /\ page.velocity[3].date = <<2023, 2, 25>>

\* C6: the days recorded for a threshold are the whole days from the previous
\* threshold's reach date (for the first threshold: from the date of the
\* first row of the data) to its own reach date, raised to 1 when below 1;
\* so every recorded value is >= 1.
C6_DaysSincePrevious ==
    pc \in {"tabs", "done"} =>
        \A j \in 1..Len(page.velocity) :
            LET from == IF j = 1 THEN df[1].Date
                        ELSE C5_ReachDate(C5_Threshold(j - 1))
                diff == C5_ReachDate(C5_Threshold(j)) - from
            IN  /\ page.velocity[j].days = (IF diff < 1 THEN 1 ELSE diff)
                /\ page.velocity[j].days >= 1

\* A first threshold reached before the first row's date (raised to 1), a
\* later one 4 days after the previous
C6_Witness ==
    /\ pc = "done"
    /\ Len(page.velocity) >= 2
    /\ C5_ReachDate(C5_Threshold(1)) < df[1].Date
    /\ page.velocity[1].days = 1
    /\ page.velocity[2].days = 4

\* C10: for a non-empty dataset and step > 0 the threshold loop terminates:
\* each pass raises the target by exactly step, the loop is left once the
\* target exceeds max Total_Assets, and the break branch is never taken.
C10_LoopTerminates ==
    /\ <>(pc = "done" /\ ~v_broke)
    /\ [][(pc = "vloop" /\ pc' = "vloop") =>
            /\ current_target <= C5_Max
            /\ current_target' = current_target + velocity_step
            /\ current_target' > current_target]_vars
    /\ [][(pc = "vloop" /\ current_target > C5_Max) => pc' = "tabs"]_vars

\* The loop ran three passes and was left by its condition
C10_Witness ==
    /\ pc = "tabs"
    /\ ~v_broke
    /\ Len(v_rows) = 3
    /\ current_target > C5_Max

-----------------------------------------------------------------------------
(* SpecMonthly: the monthly series and the seasonal pivot *)

\* Row dates 2023-02-25, 2023-02-28, 2023-03-07, 2024-01-11
MonthlyDays == {0, 3, 10, 320}
MonthlyRows ==
    [Day : MonthlyDays, Bank : {{1}, {2}, {4}}, Invest : {NaN}, Notes : {NaN}]

InitMonthly ==
    /\ \E n \in 1..MaxRows : csv \in [1..n -> MonthlyRows]
    /\ InitWith({default_milestones}, {DefaultStep}, {DefaultGoal}, {FALSE})

SpecMonthly == InitMonthly /\ [][NextLoad]_vars

\* The month of every row, counted from year 0
C7_MonthOf == [i \in 1..Len(df) |-> MonthIndex(df[i].Date)]
\* Total_Assets of the last row dated in month k (month[i] the month of row
\* i): the latest date, the later row of the file among rows of one date
C7_Close(month, k) ==
    LET i == CHOOSE i \in 1..Len(df) :
                /\ month[i] = k
                /\ \A j \in 1..Len(df) :
                     month[j] = k =>
                        \/ df[j].Date < df[i].Date
                        \/ (df[j].Date = df[i].Date /\ j <= i)
    IN  df[i].Total_Assets
C7_PivotHoldsSeries ==
    /\ \A k \in DOMAIN monthly_diff :
          season_pivot[<<k \div 12, (k % 12) + 1>>] = {monthly_diff[k]}
    /\ \A ym \in DOMAIN season_pivot :
          (ym[1] * 12 + ym[2] - 1) \notin DOMAIN monthly_diff => season_pivot[ym] = {}

\* C7 as stated: every month after the first month of the data has net
\* change (last row of the month) - (last row of the preceding calendar
\* month), the first month has 0, and the pivot holds these values.
C7_MonthlyNetChange_Original ==
    pc = "kpi" =>
        LET month == C7_MonthOf
            months == {month[i] : i \in 1..Len(df)}
            first == CHOOSE k \in months : \A j \in months : k <= j
            last == CHOOSE k \in months : \A j \in months : k >= j
        IN  /\ DOMAIN monthly_diff = first..last
            /\ monthly_diff[first] = 0
            /\ \A k \in (first + 1)..last :
                /\ k \in months /\ (k - 1) \in months
                /\ monthly_diff[k] = C7_Close(month, k) - C7_Close(month, k - 1)
            /\ C7_PivotHoldsSeries

\* C7, amended: the difference is the net change of a month after the first
\* when both that month and the preceding calendar month hold a row; the
\* first month, a month without rows and a month whose preceding month has
\* no rows have net change 0; the pivot holds these values by (year, month).
C7_MonthlyNetChange ==
    pc = "kpi" =>
        LET month == C7_MonthOf
            months == {month[i] : i \in 1..Len(df)}
            first == CHOOSE k \in months : \A j \in months : k <= j
            last == CHOOSE k \in months : \A j \in months : k >= j
        IN  /\ DOMAIN monthly_diff = first..last
            /\ monthly_diff[first] = 0
            /\ \A k \in (first + 1)..last :
                monthly_diff[k] =
                    IF k \in months /\ (k - 1) \in months
                    THEN C7_Close(month, k) - C7_Close(month, k - 1)
                    ELSE 0
            /\ C7_PivotHoldsSeries

\* February (two rows, the later one first in the file) and March differ by
\* 3: March closes at 4, February at 1
C7_Witness ==
    /\ pc = "kpi"
    /\ Len(df) = 3
    /\ df[1].Date = 58 /\ df[1].Total_Assets = 1
    /\ df[2].Date = 55 /\ df[2].Total_Assets = 2
    /\ df[3].Date = 65 /\ df[3].Total_Assets = 4
    /\ monthly_diff[MonthIndex(65)] = 3
    /\ season_pivot[<<2023, 3>>] = {3}

\* March follows February, then no row until January 2024, whose net change
\* is 0 although the assets fell
C7_WitnessGap ==
    /\ pc = "kpi"
    /\ Len(df) = 3
    /\ df[1].Date = 55 /\ df[1].Total_Assets = 2
    /\ df[2].Date = 65 /\ df[2].Total_Assets = 4
    /\ df[3].Date = 375 /\ df[3].Total_Assets = 1
    /\ monthly_diff[MonthIndex(65)] = 2
    /\ monthly_diff[MonthIndex(375)] = 0
    /\ season_pivot[<<2024, 1>>] = {0}
    /\ season_pivot[<<2024, 3>>] = {}

-----------------------------------------------------------------------------
(* Spec: whole runs of the script, privacy mode on or off *)

RunAmounts == {0, 60000, 120000}
\* Row dates 2023-02-25 and 2023-06-25, before and after the default milestone
RunRows == [Day : {0, 120}, Bank : {{a} : a \in RunAmounts},
            Invest : {NaN}, Notes : {NaN}]
RunGoals == {100000, DefaultGoal}

Init ==
    /\ \E n \in 1..MaxRows : csv \in [1..n -> RunRows]
    /\ InitWith({<<>>, default_milestones}, {DefaultStep}, RunGoals, BOOLEAN)

Spec == Init /\ [][Next]_vars

\* The amounts the page shows as metrics and texts
C8_AmountsShown ==
    {page.title_goal, page.kpi_total, page.kpi_change, page.kpi_accum,
     page.step_label, page.projection.goal, page.projection.rem,
     page.projection.vel}
    \cup {page.velocity[j].label : j \in 1..Len(page.velocity)}
    \cup {page.top_inc[j].Change : j \in 1..Len(page.top_inc)}
    \cup {page.top_exp[j].Change : j \in 1..Len(page.top_exp)}

\* The data files that differ from csv only in their amounts
C8_Variants ==
    {f \in [1..Len(csv) -> RunRows] : \A i \in 1..Len(csv) : f[i].Day = csv[i].Day}

\* The amounts among the metrics and texts of a run on file f with the
\* widgets of this run: the KPI metrics, the Change cells of the Top-10
\* tables, the projection text
C8_AmountsOf(f) ==
    LET rows == process_rows(f, start_dt, milestones)
        inc == top_inc_of(rows, privacy_mode)
        exp == top_exp_of(rows, privacy_mode)
        proj == projection_of(rows, target_goal, privacy_mode)
    IN  [kpi_total  |-> fmt_money(rows[Len(rows)].Total_Assets, privacy_mode),
         kpi_change |-> kpi_change_of(rows, privacy_mode),
         kpi_accum  |-> kpi_accum_of(rows, privacy_mode),
         top_inc    |-> {inc[j].Change : j \in 1..Len(inc)},
         top_exp    |-> {exp[j].Change : j \in 1..Len(exp)},
         proj       |-> {proj.goal, proj.rem, proj.vel}]

\* The same amounts, as this run's page shows them
C8_AmountsOnPage ==
    [kpi_total  |-> page.kpi_total,
     kpi_change |-> page.kpi_change,
     kpi_accum  |-> page.kpi_accum,
     top_inc    |-> {page.top_inc[j].Change : j \in 1..Len(page.top_inc)},
     top_exp    |-> {page.top_exp[j].Change : j \in 1..Len(page.top_exp)},
     proj       |-> {page.projection.goal, page.projection.rem, page.projection.vel}]

\* C8: with privacy mode on, the monetary values the page shows are replaced
\* by '****': for any two datasets that differ only in their amounts, no
\* displayed metric or text value differs in the amount it shows.
C8_PrivacyMasksAmounts ==
    (pc = "done" /\ privacy_mode) =>
        \A f \in C8_Variants : C8_AmountsOf(f) = C8_AmountsOnPage

\* What holds: every listed value but the "近365日均积累" metric is masked
C8_MaskedButAccumulation ==
    (pc = "done" /\ privacy_mode) =>
        \A v \in C8_AmountsShown \ {page.kpi_accum} : v = [masked |-> TRUE, val |-> 0]

-----------------------------------------------------------------------------
(* SpecSession: a browser session, the script rerun after each edit of the
   milestone table while st.cache_data holds earlier results *)

\* Dates of the milestone rows of ms_df that parse_milestones keeps
editor_dates(editor) ==
    {editor[j].date : j \in {k \in 1..Len(editor) :
                                ~IsNa(editor[k].date) /\ ~IsNa(editor[k].name)}}

\* TRUE for the rows of the editor that hold the earliest milestone date
is_earliest(editor, j) ==
    \A ds \in editor_dates(editor) : ValueOf(editor[j].date) <= ValueOf(ds)

\* Names and dates typed into the table: "公司A", "B"; 2023-10-28, 2024-08-23
SessionNames == {CompanyA, <<"B">>}
SessionDates == {300, 600}

\* st.data_editor (lines 69-88): a name cell is retyped; the script reruns
RenameMilestone ==
    /\ pc = "done"
    /\ \E j \in 1..Len(ms_df), n \in SessionNames :
          /\ ms_df[j].name # {n}
          /\ ms_df' = [ms_df EXCEPT ![j].name = {n}]
    /\ pc' = "sidebar"
    /\ UNCHANGED <<csv, start_dt, privacy_mode, target_goal, velocity_step,
                   milestones, df, monthly_diff, season_pivot, current_target,
                   last_date, v_rows, v_broke, page, cache, cache_hit>>

\* num_rows="dynamic" (line 71): a row dated after the earliest milestone is
\* appended; the script reruns
AddMilestone ==
    /\ pc = "done"
    /\ Len(ms_df) < MaxMilestones
    /\ \E d \in SessionDates, n \in SessionNames :
          /\ \E ds \in editor_dates(ms_df) : ValueOf(ds) < d
          /\ ms_df' = Append(ms_df, [date |-> {d}, name |-> {n}])
    /\ pc' = "sidebar"
    /\ UNCHANGED <<csv, start_dt, privacy_mode, target_goal, velocity_step,
                   milestones, df, monthly_diff, season_pivot, current_target,
                   last_date, v_rows, v_broke, page, cache, cache_hit>>

\* num_rows="dynamic" (line 71): a row other than the earliest milestone is
\* deleted; the script reruns
RemoveMilestone ==
    /\ pc = "done"
    /\ \E j \in 1..Len(ms_df) :
          /\ ~is_earliest(ms_df, j)
          /\ ms_df' = SubSeq(ms_df, 1, j - 1) \o SubSeq(ms_df, j + 1, Len(ms_df))
    /\ pc' = "sidebar"
    /\ UNCHANGED <<csv, start_dt, privacy_mode, target_goal, velocity_step,
                   milestones, df, monthly_diff, season_pivot, current_target,
                   last_date, v_rows, v_broke, page, cache, cache_hit>>

NextSession ==
    \/ Next
    \/ CacheExpire
    \/ RenameMilestone
    \/ AddMilestone
    \/ RemoveMilestone

SessionRow(day, amount) ==
    [Day |-> day, Bank |-> {amount}, Invest |-> NaN, Notes |-> NaN]

\* Two rows: 2023-02-25, then 2023-06-25, 2024-03-31 or 2025-01-25
SessionFiles ==
    {<<SessionRow(0, 60000), SessionRow(day, 120000)>> : day \in {120, 400, 700}}

InitSession ==
    /\ csv \in SessionFiles
    /\ InitWith({default_milestones}, {DefaultStep}, {DefaultGoal}, {FALSE})

SpecSession == InitSession /\ [][NextSession]_vars

\* The script is past line 265 and holds the frames of this run
C11_Loaded == pc \in {"kpi", "velocity", "vloop", "tabs", "done"}

\* C11: on every run, once load_and_process_data has returned, the Stage of
\* every row is the one assign_stage_dynamic gives for the milestone list of
\* this run, whether the frames were computed or served from the cache, after
\* any renaming of a milestone or adding/removing of a later milestone.
C11_StageReflectsMilestones ==
    C11_Loaded =>
        \A i \in 1..Len(df) :
            df[i].Stage = assign_stage_dynamic(df[i].Date, milestones)

\* What holds: the stages follow this run's milestones whenever the body of
\* load_and_process_data ran
C11_ComputedStageReflectsMilestones ==
    (C11_Loaded /\ ~cache_hit) =>
        \A i \in 1..Len(df) :
            df[i].Stage = assign_stage_dynamic(df[i].Date, milestones)

\* The arguments of the cached call are those of this run's call
C11_CacheKeyedOnArguments ==
    \A e \in cache :
        e.key = cache_key(csv, start_dt, job_start_dt_of(parse_milestones(ms_df)))

\* A render after a rename, served from the cache: the last row is still
\* labelled "公司A" although the only milestone is now named "B"
C11_StaleAfterRename ==
    /\ pc = "done"
    /\ cache_hit
    /\ milestones = <<[date |-> DefaultJobStart, label |-> <<"B">>]>>
    /\ df[Len(df)].Stage.label = CompanyA

====
